---------------------------- MODULE Spec2Model ----------------------------
(***************************************************************************)
(* QUIC packet headers, packets and the packet factory of                  *)
(* iocore/net/quic/QUICPacket.cc.                                          *)
(*                                                                         *)
(* Wire buffers are sequences of bytes.  A 64-bit value (connection id,     *)
(* packet number) is held as four 16-bit limbs and a 32-bit version as two, *)
(* most significant first, so that 0xFFFFFFFF and larger values keep their  *)
(* width.  A C++ pointer that may be null is a sequence of length 0 or 1.   *)
(***************************************************************************)
EXTENDS Integers, Sequences, FiniteSets, TLC

VARIABLES
  debug,          \* build flavour: TRUE when ink_assert aborts (DEBUG build)
  aborted,        \* the process died on a failed assertion or a null dereference
  \* QUICPacketFactory
  _current,       \* QUICPacketNumberGenerator::_current
  _version,       \* QUICPacketFactory::_version
  _crypto,        \* QUICPacketFactory::_crypto, <<>> when null
  result,         \* what the last factory call returned, <<>> for nullptr
  last_op,        \* history: the operation that produced or last changed result
  drawn,          \* history: the values next() returned, in call order
  kinds,          \* history: the kinds of packet that drew them
  prev_current,   \* history: _current before that operation
  enc_ad,         \* history: associated data handed to the last encrypt call
  enc_txt,        \* history: ciphertext the last encrypt call produced
  vn_client,      \* history: the packet the last version negotiation answered
  first_version,  \* history: the first concrete version set_version stored
  \* header and packet scenarios
  hdr,            \* a built QUICPacketHeader, <<>> when none
  wire,           \* bytes written by the last store()
  loaded,         \* a parsed QUICPacketHeader, <<>> when none
  pkt,            \* a built QUICPacket, <<>> when none
  block,          \* the IOBufferBlock bytes of a received packet
  rx              \* the QUICPacket created from block, <<>> when none

vars == <<debug, aborted, _current, _version, _crypto, result, last_op, drawn, kinds,
          prev_current, enc_ad, enc_txt, vn_client, first_version,
          hdr, wire, loaded, pkt, block, rx>>

factory_vars == <<_current, _version, _crypto, result, last_op, drawn, kinds,
                  prev_current, enc_ad, enc_txt, vn_client, first_version>>

header_vars == <<hdr, wire, loaded>>

packet_vars == <<pkt, block, rx>>

-----------------------------------------------------------------------------
(* Bounds of the model *)

MaxCalls == 3        \* factory calls that draw a packet number
MaxPayloadLen == 2   \* payload bytes of a built packet

-----------------------------------------------------------------------------
(* Constants of QUICPacket.cc *)

OFFSET_CONNECTION_ID == 1
OFFSET_PACKET_NUMBER == 9
OFFSET_VERSION == 13
OFFSET_PAYLOAD == 17
LONGHEADER_LENGTH == 17
FNV1A_HASH_LEN == 8

(* QUICPacketType: the enumerators in declaration order, UNINITIALIZED last. *)
(* Their numeric values are declared outside QUICPacket.cc; the first is     *)
(* taken as 0 here and the others follow it.                                 *)
VERSION_NEGOTIATION == 0
CLIENT_INITIAL == VERSION_NEGOTIATION + 1
SERVER_STATELESS_RETRY == VERSION_NEGOTIATION + 2
SERVER_CLEARTEXT == VERSION_NEGOTIATION + 3
CLIENT_CLEARTEXT == VERSION_NEGOTIATION + 4
ZERO_RTT_PROTECTED == VERSION_NEGOTIATION + 5
ONE_RTT_PROTECTED_KEY_PHASE_0 == VERSION_NEGOTIATION + 6
ONE_RTT_PROTECTED_KEY_PHASE_1 == VERSION_NEGOTIATION + 7
STATELESS_RESET == VERSION_NEGOTIATION + 8
UNINITIALIZED == VERSION_NEGOTIATION + 9

QUICPacketType == VERSION_NEGOTIATION .. UNINITIALIZED

(* QUICKeyPhase *)
QUICKeyPhase == {"PHASE_0", "PHASE_1", "PHASE_UNINITIALIZED"}

(* QUICPacketShortHeaderType: the 2-bit packet-number width selector *)
ONE == 1
TWO == 2
THREE == 3
SHORT_UNINITIALIZED == 4

-----------------------------------------------------------------------------
(* Bytes and fixed-width integers *)

Byte == 0 .. 255

Zeros(n) == [i \in 1 .. n |-> 0]

Zero64 == <<0, 0, 0, 0>>

Zero32 == <<0, 0>>

\* the 64-bit value of a small natural number
ToU64(n) == <<0, 0, n \div 65536, n % 65536>>

\* v <= 0xFF and v <= 0xFFFF on a 64-bit value
LeqFF(v) == v[1] = 0 /\ v[2] = 0 /\ v[3] = 0 /\ v[4] <= 255

LeqFFFF(v) == v[1] = 0 /\ v[2] = 0 /\ v[3] = 0

\* v + 1 on a 64-bit value (wraps at 2^64)
RECURSIVE IncAt(_, _)
IncAt(v, i) ==
  IF i = 0 THEN v
  ELSE IF v[i] = 65535 THEN IncAt([v EXCEPT ![i] = 0], i - 1)
  ELSE [v EXCEPT ![i] = v[i] + 1]

Inc64(v) == IncAt(v, 4)

\* the big-endian bytes of a value held in 16-bit limbs
BytesOf(v) == [i \in 1 .. 2 * Len(v) |->
                 IF i % 2 = 1 THEN v[(i + 1) \div 2] \div 256 ELSE v[i \div 2] % 256]

\* the 16-bit limbs of an even number of big-endian bytes
LimbsOf(b) == [i \in 1 .. Len(b) \div 2 |-> b[2 * i - 1] * 256 + b[2 * i]]

\* bits of a byte
RECURSIVE XorByte(_, _)
XorByte(a, b) ==
  IF a = 0 THEN b
  ELSE IF b = 0 THEN a
  ELSE ((a + b) % 2) + 2 * XorByte(a \div 2, b \div 2)

-----------------------------------------------------------------------------
(* QUICTypeUtil: field codec primitives *)

hasLongHeader(buf) == buf[1] >= 128

\* read n bytes at offset off (0-based) as a big-endian unsigned integer
read_nbytes_as_uint(buf, off, n) == LimbsOf(Zeros(8 - n) \o SubSeq(buf, off + 1, off + n))

read_QUICConnectionId(buf, off, n) == read_nbytes_as_uint(buf, off, n)

read_QUICPacketNumber(buf, off, n) == read_nbytes_as_uint(buf, off, n)

read_QUICVersion(buf, off) == LimbsOf(SubSeq(buf, off + 1, off + 4))

\* write the low n bytes of a value, big-endian
write_uint_as_nbytes(v, n) == SubSeq(BytesOf(v), 2 * Len(v) + 1 - n, 2 * Len(v))

write_QUICConnectionId(cid, n) == write_uint_as_nbytes(cid, n)

write_QUICPacketNumber(pn, n) == write_uint_as_nbytes(pn, n)

write_QUICVersion(v) == write_uint_as_nbytes(v, 4)

-----------------------------------------------------------------------------
(* ink_assert is compiled out of release builds and aborts in debug builds; *)
(* ink_release_assert aborts in both.                                       *)

ink_assert_aborts(cond) == debug /\ ~cond

ink_release_assert_aborts(cond) == ~cond

-----------------------------------------------------------------------------
(* QUICPacketHeader: a built header keeps fields and has a null _buf; a     *)
(* parsed header is a view over _buf.                                       *)

\* the members as the header class initialises them
DefaultHeader ==
  [form |-> "long", _buf |-> <<>>, _type |-> UNINITIALIZED,
   _has_connection_id |-> FALSE, _connection_id |-> Zero64,
   _packet_number |-> Zero64, _has_version |-> FALSE, _version |-> Zero32,
   _payload |-> <<>>, _payload_len |-> 0,
   _has_key_phase |-> FALSE, _key_phase |-> "PHASE_UNINITIALIZED",
   _packet_number_type |-> SHORT_UNINITIALIZED]

QUICPacketLongHeader_built(type, connection_id, packet_number, version, buf, len) ==
  [DefaultHeader EXCEPT
     !.form = "long", !._type = type, !._has_connection_id = TRUE,
     !._connection_id = connection_id, !._packet_number = packet_number,
     !._has_version = TRUE, !._version = version,
     !._payload = buf, !._payload_len = len]

\* the key phase the short-header constructors derive from the type
ShortKeyPhaseOf(type) ==
  IF type = ONE_RTT_PROTECTED_KEY_PHASE_0 THEN "PHASE_0"
  ELSE IF type = ONE_RTT_PROTECTED_KEY_PHASE_1 THEN "PHASE_1"
  ELSE "PHASE_UNINITIALIZED"

\* ink_assert(false) in the constructors' else branch
ShortCtorAsserts(type) ==
  ink_assert_aborts(type \in {ONE_RTT_PROTECTED_KEY_PHASE_0, ONE_RTT_PROTECTED_KEY_PHASE_1})

\* the width selector the short-header constructors derive from the magnitude
PacketNumberTypeOf(packet_number) ==
  IF LeqFF(packet_number) THEN ONE
  ELSE IF LeqFFFF(packet_number) THEN TWO
  ELSE THREE

QUICPacketShortHeader_built(type, packet_number, buf, len) ==
  [DefaultHeader EXCEPT
     !.form = "short", !._type = type, !._has_key_phase = TRUE,
     !._packet_number = packet_number, !._payload = buf, !._payload_len = len,
     !._key_phase = ShortKeyPhaseOf(type),
     !._packet_number_type = PacketNumberTypeOf(packet_number)]

QUICPacketShortHeader_built_cid(type, connection_id, packet_number, buf, len) ==
  [DefaultHeader EXCEPT
     !.form = "short", !._type = type, !._has_key_phase = TRUE,
     !._has_connection_id = TRUE, !._connection_id = connection_id,
     !._packet_number = packet_number, !._payload = buf, !._payload_len = len,
     !._key_phase = ShortKeyPhaseOf(type),
     !._packet_number_type = PacketNumberTypeOf(packet_number)]

QUICPacketHeader_load(buf) ==
  IF hasLongHeader(buf)
  THEN [DefaultHeader EXCEPT !.form = "long", !._buf = <<buf>>]
  ELSE [DefaultHeader EXCEPT !.form = "short", !._buf = <<buf>>]

IsParsed(h) == h._buf # <<>>

(* QUICPacketLongHeader accessors *)

QUICPacketLongHeader_type(h) ==
  IF IsParsed(h)
  THEN LET type == h._buf[1][1] % 128
       IN  IF type < UNINITIALIZED THEN type ELSE UNINITIALIZED
  ELSE h._type

QUICPacketLongHeader_connection_id(h) ==
  IF IsParsed(h)
  THEN read_QUICConnectionId(h._buf[1], OFFSET_CONNECTION_ID, 8)
  ELSE h._connection_id

QUICPacketLongHeader_packet_number(h) ==
  IF IsParsed(h)
  THEN read_QUICPacketNumber(h._buf[1], OFFSET_PACKET_NUMBER, 4)
  ELSE h._packet_number

QUICPacketLongHeader_version(h) ==
  IF IsParsed(h) THEN read_QUICVersion(h._buf[1], OFFSET_VERSION) ELSE h._version

QUICPacketLongHeader_payload(h) ==
  IF IsParsed(h)
  THEN SubSeq(h._buf[1], OFFSET_PAYLOAD + 1, Len(h._buf[1]))
  ELSE h._payload

QUICPacketLongHeader_length(h) == LONGHEADER_LENGTH

QUICPacketLongHeader_store(h) ==
  <<(128 + h._type) % 256>>
    \o write_QUICConnectionId(h._connection_id, 8)
    \o write_QUICPacketNumber(h._packet_number, 4)
    \o write_QUICVersion(h._version)

(* QUICPacketShortHeader accessors *)

QUICPacketShortHeader_key_phase(h) ==
  IF IsParsed(h)
  THEN IF (h._buf[1][1] \div 32) % 2 = 1 THEN "PHASE_1" ELSE "PHASE_0"
  ELSE h._key_phase

QUICPacketShortHeader_type(h) ==
  LET key_phase == QUICPacketShortHeader_key_phase(h)
  IN  IF key_phase = "PHASE_0" THEN ONE_RTT_PROTECTED_KEY_PHASE_0
      ELSE IF key_phase = "PHASE_1" THEN ONE_RTT_PROTECTED_KEY_PHASE_1
      ELSE UNINITIALIZED

\* ink_assert(false) in the default branch of type()
ShortTypeAsserts(h) ==
  ink_assert_aborts(QUICPacketShortHeader_key_phase(h) \in {"PHASE_0", "PHASE_1"})

QUICPacketShortHeader_has_connection_id(h) ==
  IF IsParsed(h) THEN (h._buf[1][1] \div 64) % 2 = 1 ELSE h._has_connection_id

QUICPacketShortHeader_packet_numberLen(h) ==
  LET type == IF IsParsed(h) THEN h._buf[1][1] % 32 ELSE h._packet_number_type
  IN  IF type = ONE THEN 1
      ELSE IF type = TWO THEN 2
      ELSE IF type = THREE THEN 4
      ELSE 0

QUICPacketShortHeader_connection_id(h) ==
  IF IsParsed(h)
  THEN read_QUICConnectionId(h._buf[1], OFFSET_CONNECTION_ID, 8)
  ELSE h._connection_id

\* ink_release_assert(has_connection_id()) when reading a parsed connection id
ShortConnectionIdAsserts(h) ==
  IsParsed(h) /\ ink_release_assert_aborts(QUICPacketShortHeader_has_connection_id(h))

QUICPacketShortHeader_packet_number(h) ==
  IF IsParsed(h)
  THEN LET n      == QUICPacketShortHeader_packet_numberLen(h)
           offset == IF QUICPacketShortHeader_has_connection_id(h)
                     THEN OFFSET_PACKET_NUMBER ELSE 1
       IN  read_QUICPacketNumber(h._buf[1], offset, n)
  ELSE h._packet_number

\* mutant: length() leaves out the connection id
QUICPacketShortHeader_length_without_connection_id(h) ==
  1 + QUICPacketShortHeader_packet_numberLen(h)

QUICPacketShortHeader_length(h) ==
  1 + (IF QUICPacketShortHeader_has_connection_id(h) THEN 8 ELSE 0)
    + QUICPacketShortHeader_packet_numberLen(h)

QUICPacketShortHeader_payload(h) ==
  IF IsParsed(h)
  THEN SubSeq(h._buf[1], QUICPacketShortHeader_length(h) + 1, Len(h._buf[1]))
  ELSE h._payload

QUICPacketShortHeader_store(h) ==
  <<((IF h._has_connection_id THEN 64 ELSE 0)
      + (IF h._key_phase = "PHASE_1" THEN 32 ELSE 0)
      + h._packet_number_type) % 256>>
    \o (IF h._has_connection_id THEN write_QUICConnectionId(h._connection_id, 8) ELSE <<>>)
    \o (IF h._packet_number_type = ONE THEN write_QUICPacketNumber(h._packet_number, 1)
        ELSE IF h._packet_number_type = TWO THEN write_QUICPacketNumber(h._packet_number, 2)
        ELSE write_QUICPacketNumber(h._packet_number, 4))

\* ink_release_assert(0) in the default branch of store()'s switch
ShortStoreAsserts(h) ==
  ink_release_assert_aborts(h._packet_number_type \in {ONE, TWO, THREE})

(* virtual dispatch over the two header classes *)

Header_type(h) ==
  IF h.form = "long" THEN QUICPacketLongHeader_type(h) ELSE QUICPacketShortHeader_type(h)

Header_has_connection_id(h) ==
  IF h.form = "long" THEN TRUE ELSE QUICPacketShortHeader_has_connection_id(h)

Header_connection_id(h) ==
  IF h.form = "long" THEN QUICPacketLongHeader_connection_id(h)
  ELSE QUICPacketShortHeader_connection_id(h)

Header_packet_number(h) ==
  IF h.form = "long" THEN QUICPacketLongHeader_packet_number(h)
  ELSE QUICPacketShortHeader_packet_number(h)

Header_has_version(h) == h.form = "long"

Header_version(h) ==
  IF h.form = "long" THEN QUICPacketLongHeader_version(h) ELSE Zero32

Header_has_key_phase(h) == h.form = "short"

Header_key_phase(h) ==
  IF h.form = "long" THEN "PHASE_0" ELSE QUICPacketShortHeader_key_phase(h)

Header_length(h) ==
  IF h.form = "long" THEN QUICPacketLongHeader_length(h) ELSE QUICPacketShortHeader_length(h)

Header_payload(h) ==
  IF h.form = "long" THEN QUICPacketLongHeader_payload(h) ELSE QUICPacketShortHeader_payload(h)

Header_store(h) ==
  IF h.form = "long" THEN QUICPacketLongHeader_store(h) ELSE QUICPacketShortHeader_store(h)

\* an assertion of type() fires
Header_type_asserts(h) == h.form = "short" /\ ShortTypeAsserts(h)

\* an assertion of store() fires
Header_store_asserts(h) == h.form = "short" /\ ShortStoreAsserts(h)

-----------------------------------------------------------------------------
(* fnv1a: 64-bit FNV-1a over bytes.  The hash is held as 8 limbs of one     *)
(* byte, least significant first; the prime 0x100000001b3 is 2^40 + 0x1b3.  *)

FNV_OFFSET_BASIS == <<37, 35, 34, 132, 228, 156, 242, 203>>  \* 0xcbf29ce484222325

FNV_PRIME_LOW == 435  \* 0x1b3

\* limbs of (h * m + carry) mod 2^64, from limb i up
RECURSIVE MulLimbs(_, _, _, _)
MulLimbs(h, m, i, carry) ==
  IF i > 8 THEN <<>>
  ELSE LET v == h[i] * m + carry
       IN  <<v % 256>> \o MulLimbs(h, m, i + 1, v \div 256)

\* limbs of (a + b + carry) mod 2^64, from limb i up
RECURSIVE AddLimbs(_, _, _, _)
AddLimbs(a, b, i, carry) ==
  IF i > 8 THEN <<>>
  ELSE LET v == a[i] + b[i] + carry
       IN  <<v % 256>> \o AddLimbs(a, b, i + 1, v \div 256)

\* h << 40 mod 2^64
ShiftLeft40(h) == [i \in 1 .. 8 |-> IF i > 5 THEN h[i - 5] ELSE 0]

FnvMulPrime(h) == AddLimbs(MulLimbs(h, FNV_PRIME_LOW, 1, 0), ShiftLeft40(h), 1, 0)

FnvStep(h, b) == FnvMulPrime([h EXCEPT ![1] = XorByte(h[1], b)])

\* the loop over the data; each step's value is computed before the next step
\* (the test of its length evaluates it)
RECURSIVE FnvFold(_, _, _)
FnvFold(h, data, i) ==
  IF i > Len(data) THEN h
  ELSE LET next == FnvStep(h, data[i])
       IN  IF Len(next) = 8 THEN FnvFold(next, data, i + 1) ELSE next

\* the 8 hash bytes written behind the packet
fnv1a(data) == FnvFold(FNV_OFFSET_BASIS, data, 1)

-----------------------------------------------------------------------------
(* QUICPacket *)

IsProtectedType(type) ==
  type \in {ZERO_RTT_PROTECTED, ONE_RTT_PROTECTED_KEY_PHASE_0, ONE_RTT_PROTECTED_KEY_PHASE_1}

\* the size the built constructors compute (uint16_t)
BuiltSize(header, type, len) ==
  (Header_length(header) + len + (IF IsProtectedType(type) THEN 0 ELSE FNV1A_HASH_LEN)) % 65536

MakePacket(header, size, retransmittable, blk) ==
  [_header |-> header, _size |-> size, _is_retransmittable |-> retransmittable,
   _protected_payload |-> <<>>, _protected_payload_size |-> 0, _block |-> blk]

\* QUICPacket(IOBufferBlock *)
QUICPacket_parsed(buf) == MakePacket(QUICPacketHeader_load(buf), Len(buf), FALSE, <<buf>>)

\* QUICPacket(type, connection_id, packet_number, version, payload, len, retransmittable)
QUICPacket_long(type, connection_id, packet_number, version, payload, len, retransmittable) ==
  LET header == QUICPacketLongHeader_built(type, connection_id, packet_number, version, payload, len)
  IN  MakePacket(header, BuiltSize(header, type, len), retransmittable, <<>>)

\* QUICPacket(type, packet_number, payload, len, retransmittable)
QUICPacket_short(type, packet_number, payload, len, retransmittable) ==
  LET header == QUICPacketShortHeader_built(type, packet_number, payload, len)
  IN  MakePacket(header, BuiltSize(header, type, len), retransmittable, <<>>)

\* QUICPacket(type, connection_id, packet_number, payload, len, retransmittable)
QUICPacket_short_cid(type, connection_id, packet_number, payload, len, retransmittable) ==
  LET header == QUICPacketShortHeader_built_cid(type, connection_id, packet_number, payload, len)
  IN  MakePacket(header, BuiltSize(header, type, len), retransmittable, <<>>)

QUICPacket_type(p) == Header_type(p._header)

QUICPacket_connection_id(p) == Header_connection_id(p._header)

QUICPacket_packet_number(p) == Header_packet_number(p._header)

QUICPacket_version(p) == Header_version(p._header)

QUICPacket_payload(p) == Header_payload(p._header)

QUICPacket_key_phase(p) == Header_key_phase(p._header)

QUICPacket_is_retransmittable(p) == p._is_retransmittable

QUICPacket_size(p) == p._size

QUICPacket_header_size(p) == Header_length(p._header)

QUICPacket_payload_size(p) ==
  IF ~IsProtectedType(QUICPacket_type(p))
  THEN p._size - Header_length(p._header) - FNV1A_HASH_LEN
  ELSE p._size - Header_length(p._header)

Take(s, n) == SubSeq(s, 1, n)

QUICPacket_store_header(p) == Header_store(p._header)

\* mutant: store() appends the checksum to protected packets too
QUICPacket_store_checksum_always(p) ==
  LET head == Header_store(p._header)
      body == IF ~IsProtectedType(QUICPacket_type(p))
              THEN head \o Take(QUICPacket_payload(p), QUICPacket_payload_size(p))
              ELSE head \o (IF p._protected_payload = <<>> THEN <<>>
                            ELSE Take(p._protected_payload[1], p._protected_payload_size))
  IN  body \o fnv1a(body)

QUICPacket_store(p) ==
  LET head == Header_store(p._header)
  IN  IF ~IsProtectedType(QUICPacket_type(p))
      THEN LET body == head \o Take(QUICPacket_payload(p), QUICPacket_payload_size(p))
           IN  body \o fnv1a(body)
      ELSE head \o (IF p._protected_payload = <<>> THEN <<>>
                    ELSE Take(p._protected_payload[1], p._protected_payload_size))

\* an assertion of store() fires: the header's, size() >= *len, type()'s, or
\* ink_assert(_protected_payload)
QUICPacket_store_asserts(p) ==
  \/ Header_store_asserts(p._header)
  \/ ink_assert_aborts(p._size >= Len(Header_store(p._header)))
  \/ Header_type_asserts(p._header)
  \/ /\ IsProtectedType(QUICPacket_type(p))
     /\ ink_assert_aborts(p._protected_payload # <<>>)

\* mutant: has_valid_fnv1a_hash() compares one byte too few
QUICPacket_has_valid_fnv1a_hash_short_compare(p) ==
  LET buf == p._block[1]
      n   == Len(buf) - FNV1A_HASH_LEN
  IN  SubSeq(buf, n + 1, Len(buf) - 1) = Take(fnv1a(Take(buf, n)), FNV1A_HASH_LEN - 1)

QUICPacket_has_valid_fnv1a_hash(p) ==
  LET buf == p._block[1]
      n   == Len(buf) - FNV1A_HASH_LEN
  IN  SubSeq(buf, n + 1, Len(buf)) = fnv1a(Take(buf, n))

QUICPacket_set_protected_payload(p, cipher_txt, cipher_txt_len) ==
  [p EXCEPT !._protected_payload = <<cipher_txt>>, !._protected_payload_size = cipher_txt_len]

-----------------------------------------------------------------------------
(* QUICPacketNumberGenerator and QUICPacketFactory *)

\* mutant: next() as ++this->_current
QUICPacketNumberGenerator_next_preincrement(current) ==
  [value |-> Inc64(current), current |-> Inc64(current)]

\* next(): return this->_current++
QUICPacketNumberGenerator_next(current) == [value |-> current, current |-> Inc64(current)]

\* the implementation's fixed list of supported versions
QUIC_SUPPORTED_VERSIONS == << <<65280, 5>>, <<65280, 4>> >>  \* 0xff000005, 0xff000004

\* the loop writing every supported version behind the previous one
RECURSIVE WriteVersions(_, _)
WriteVersions(versions, k) ==
  IF k > Len(versions) THEN <<>>
  ELSE write_QUICVersion(versions[k]) \o WriteVersions(versions, k + 1)

QUICPacketFactory_create(buf) == QUICPacket_parsed(buf)

\* mutant: the version negotiation packet is marked retransmittable
create_version_negotiation_packet_retransmittable(packet_sent_by_client) ==
  LET len      == 4 * Len(QUIC_SUPPORTED_VERSIONS)
      versions == WriteVersions(QUIC_SUPPORTED_VERSIONS, 1)
  IN  QUICPacket_long(VERSION_NEGOTIATION,
                      QUICPacket_connection_id(packet_sent_by_client),
                      QUICPacket_packet_number(packet_sent_by_client),
                      QUICPacket_version(packet_sent_by_client),
                      versions, len, TRUE)

create_version_negotiation_packet(packet_sent_by_client) ==
  LET len      == 4 * Len(QUIC_SUPPORTED_VERSIONS)
      versions == WriteVersions(QUIC_SUPPORTED_VERSIONS, 1)
  IN  QUICPacket_long(VERSION_NEGOTIATION,
                      QUICPacket_connection_id(packet_sent_by_client),
                      QUICPacket_packet_number(packet_sent_by_client),
                      QUICPacket_version(packet_sent_by_client),
                      versions, len, FALSE)

create_server_cleartext_packet(connection_id, packet_number, version, payload, len, retransmittable) ==
  QUICPacket_long(SERVER_CLEARTEXT, connection_id, packet_number, version, payload, len,
                  retransmittable)

\* the packet create_server_protected_packet builds before it encrypts
create_server_protected_plain(connection_id, packet_number, payload, len, retransmittable) ==
  QUICPacket_short_cid(ONE_RTT_PROTECTED_KEY_PHASE_0, connection_id, packet_number, payload,
                       len, retransmittable)

\* what create_server_protected_packet returns, given encrypt's outcome
\* (cipher is <<>> when encrypt failed, <<ciphertext>> when it succeeded)
create_server_protected_result(packet, cipher) ==
  IF cipher # <<>>
  THEN <<QUICPacket_set_protected_payload(packet, cipher[1], Len(cipher[1]))>>
  ELSE <<>>

create_client_initial_packet(connection_id, packet_number, version, payload, len) ==
  QUICPacket_long(CLIENT_INITIAL, connection_id, packet_number, version, payload, len, TRUE)

-----------------------------------------------------------------------------
(* Inputs *)

ConnectionIds == {ToU64(1), <<258, 772, 1286, 1800>>}  \* 1, 0x0102030405060708

Versions == {<<65280, 5>>, <<0, 1>>}  \* 0xff000005, 0x00000001

\* the packet-number width boundaries 0x00, 0xFF, 0x100, 0xFFFF, 0x10000, 0xFFFFFFFF
BoundaryPacketNumbers ==
  {ToU64(0), ToU64(255), ToU64(256), ToU64(65535), ToU64(65536),
   <<0, 0, 65535, 65535>>}

\* and one that needs more than 32 bits
PacketNumbers == BoundaryPacketNumbers \cup {<<0, 1, 0, 2>>}

PayloadBytes == {0, 171}

RECURSIVE SeqsUpTo(_, _)
SeqsUpTo(S, n) ==
  IF n = 0 THEN {<<>>}
  ELSE LET shorter == SeqsUpTo(S, n - 1)
       IN  shorter \cup {Append(s, x) : s \in {t \in shorter : Len(t) = n - 1}, x \in S}

Payloads == SeqsUpTo(PayloadBytes, MaxPayloadLen)

\* payloads handed to the factory
FactoryPayloads == SeqsUpTo({171}, MaxPayloadLen)

\* outputs of the cipher: AEAD output is longer than the plaintext
CipherTexts == {<<193>>, <<193, 194, 195>>}

\* packets a client may have sent: built, received long-header, received short-header
\* with and without connection id
ClientPackets ==
  LET built == {create_client_initial_packet(c, ToU64(65543), v, <<>>, 0) :
                  c \in ConnectionIds, v \in Versions}
  IN  built
        \cup {QUICPacketFactory_create(QUICPacket_store(p)) : p \in built}
        \cup {QUICPacketFactory_create(<<65>> \o BytesOf(c) \o <<9>>) : c \in ConnectionIds}
        \cup {QUICPacketFactory_create(<<1, 9>>)}

-----------------------------------------------------------------------------
(* The packet factory and the packets it hands out *)

FactoryInit ==
  /\ _current = Zero64
  /\ _version = Zero32
  /\ _crypto = <<>>
  /\ result = <<>>
  /\ last_op = "init"
  /\ drawn = <<>>
  /\ kinds = {}
  /\ prev_current = Zero64
  /\ enc_ad = <<>>
  /\ enc_txt = <<>>
  /\ vn_client = <<>>
  /\ first_version = <<>>

Init ==
  /\ debug \in BOOLEAN
  /\ aborted = FALSE
  /\ FactoryInit
  /\ hdr = <<>> /\ wire = <<>> /\ loaded = <<>>
  /\ pkt = <<>> /\ block = <<>> /\ rx = <<>>

Abort ==
  /\ aborted' = TRUE
  /\ UNCHANGED <<debug, factory_vars, header_vars, packet_vars>>

set_crypto_module ==
  /\ ~aborted
  /\ _crypto' = <<"crypto">>
  /\ UNCHANGED <<debug, aborted, _current, _version, result, last_op, drawn, kinds,
                 prev_current, enc_ad, enc_txt, vn_client, first_version,
                 header_vars, packet_vars>>

set_version(negotiated_version) ==
  /\ ~aborted
  /\ IF ink_assert_aborts(_version = Zero32)
     THEN Abort
     ELSE /\ _version' = negotiated_version
          /\ first_version' = IF first_version = <<>> THEN <<negotiated_version>>
                              ELSE first_version
          /\ UNCHANGED <<debug, aborted, _current, _crypto, result, last_op, drawn, kinds,
                         prev_current, enc_ad, enc_txt, vn_client, header_vars, packet_vars>>

create_version_negotiation(packet_sent_by_client) ==
  /\ ~aborted
  /\ IF /\ packet_sent_by_client._header.form = "short"
        /\ ShortConnectionIdAsserts(packet_sent_by_client._header)
     THEN Abort
     ELSE /\ result' = <<create_version_negotiation_packet(packet_sent_by_client)>>
          /\ vn_client' = <<packet_sent_by_client>>
          /\ last_op' = "create_version_negotiation"
          /\ prev_current' = _current
          /\ enc_ad' = <<>> /\ enc_txt' = <<>>
          /\ UNCHANGED <<debug, aborted, _current, _version, _crypto, drawn, kinds,
                         first_version, header_vars, packet_vars>>

create_server_cleartext(connection_id, payload, retransmittable) ==
  /\ ~aborted
  /\ Len(drawn) < MaxCalls
  /\ LET nx == QUICPacketNumberGenerator_next(_current)
     IN  /\ _current' = nx.current
         /\ result' = <<create_server_cleartext_packet(connection_id, nx.value, _version,
                                                        payload, Len(payload), retransmittable)>>
         /\ drawn' = Append(drawn, nx.value)
  /\ kinds' = kinds \cup {"create_server_cleartext"}
  /\ last_op' = "create_server_cleartext"
  /\ prev_current' = _current
  /\ enc_ad' = <<>> /\ enc_txt' = <<>> /\ vn_client' = <<>>
  /\ UNCHANGED <<debug, aborted, _version, _crypto, first_version, header_vars, packet_vars>>

create_client_initial(connection_id, version, payload) ==
  /\ ~aborted
  /\ Len(drawn) < MaxCalls
  /\ LET nx == QUICPacketNumberGenerator_next(_current)
     IN  /\ _current' = nx.current
         /\ result' = <<create_client_initial_packet(connection_id, nx.value, version,
                                                      payload, Len(payload))>>
         /\ drawn' = Append(drawn, nx.value)
  /\ kinds' = kinds \cup {"create_client_initial"}
  /\ last_op' = "create_client_initial"
  /\ prev_current' = _current
  /\ enc_ad' = <<>> /\ enc_txt' = <<>> /\ vn_client' = <<>>
  /\ UNCHANGED <<debug, aborted, _version, _crypto, first_version, header_vars, packet_vars>>

\* cipher is the outcome of the external encrypt call
create_server_protected(connection_id, payload, retransmittable, cipher) ==
  /\ ~aborted
  /\ Len(drawn) < MaxCalls
  /\ IF _crypto = <<>>
     THEN Abort
     ELSE /\ LET nx     == QUICPacketNumberGenerator_next(_current)
                 packet == create_server_protected_plain(connection_id, nx.value, payload,
                                                         Len(payload), retransmittable)
             IN  /\ _current' = nx.current
                 /\ enc_ad' = QUICPacket_store_header(packet)
                 /\ enc_txt' = cipher
                 /\ result' = create_server_protected_result(packet, cipher)
                 /\ drawn' = Append(drawn, nx.value)
          /\ kinds' = kinds \cup {"create_server_protected"}
          /\ last_op' = "create_server_protected"
          /\ prev_current' = _current
          /\ vn_client' = <<>>
          /\ UNCHANGED <<debug, aborted, _version, _crypto, first_version,
                         header_vars, packet_vars>>

\* the caller sets a protected payload on the packet it was handed
set_protected_payload(cipher_txt) ==
  /\ ~aborted
  /\ result # <<>>
  /\ result' = <<QUICPacket_set_protected_payload(result[1], cipher_txt, Len(cipher_txt))>>
  /\ last_op' = "set_protected_payload"
  /\ prev_current' = _current
  /\ UNCHANGED <<debug, aborted, _current, _version, _crypto, drawn, kinds, enc_ad, enc_txt,
                 vn_client, first_version, header_vars, packet_vars>>

Next ==
  \/ set_crypto_module
  \/ \E v \in Versions : set_version(v)
  \/ \E p \in ClientPackets : create_version_negotiation(p)
  \/ \E c \in ConnectionIds, d \in FactoryPayloads, r \in BOOLEAN :
       create_server_cleartext(c, d, r)
  \/ \E c \in ConnectionIds, v \in Versions, d \in FactoryPayloads :
       create_client_initial(c, v, d)
  \/ \E c \in ConnectionIds, d \in FactoryPayloads, r \in BOOLEAN,
        x \in {<<>>} \cup {<<t>> : t \in CipherTexts} :
       create_server_protected(c, d, r, x)
  \/ \E t \in CipherTexts : set_protected_payload(t)

Spec == Init /\ [][Next]_vars

-----------------------------------------------------------------------------
(* Properties of the factory *)

CreateOps == {"create_server_cleartext", "create_client_initial", "create_server_protected"}

\* C1: from a fresh factory, the i-th call (i = 0, 1, 2, ...) to
\* create_server_cleartext, create_client_initial or create_server_protected
\* draws packet number i from the generator, whatever kind of packet each call
\* builds: the numbers handed out are 0, 1, ..., N-1 without repeats or gaps,
\* and the packet returned carries the number its call drew.
C1_PacketNumbersInCallOrder ==
  /\ \A i \in 1 .. Len(drawn) : drawn[i] = ToU64(i - 1)
  /\ _current = ToU64(Len(drawn))
  /\ (last_op \in CreateOps /\ result # <<>>)
       => QUICPacket_packet_number(result[1]) = ToU64(Len(drawn) - 1)

C1_Witness ==
  /\ ~aborted
  /\ Len(drawn) >= 3
  /\ kinds = CreateOps
  /\ result # <<>>
  /\ last_op \in CreateOps

\* C3: when encrypt succeeds, create_server_protected returns a packet of type
\* OneRttProtectedPhase0 whose store() output is the header bytes (the bytes
\* handed to encrypt as associated data) followed by exactly the ciphertext
\* encrypt produced, with no checksum behind it; when encrypt fails it returns
\* no packet.
C3_ProtectedPacket ==
  last_op = "create_server_protected" =>
    /\ enc_txt = <<>> => result = <<>>
    /\ enc_txt # <<>> =>
         /\ result # <<>>
         /\ QUICPacket_type(result[1]) = ONE_RTT_PROTECTED_KEY_PHASE_0
         /\ QUICPacket_store_header(result[1]) = enc_ad
         /\ QUICPacket_store(result[1]) = enc_ad \o enc_txt[1]

C3_Witness ==
  /\ ~aborted
  /\ last_op = "create_server_protected"
  /\ result # <<>>
  /\ enc_txt # <<>>
  /\ result[1]._header._payload_len > 0
  /\ Len(QUICPacket_store(result[1])) = Len(enc_ad) + Len(enc_txt[1])

\* C5: once set_version has stored a concrete version, the factory's version
\* equals that first value in every later state; a later set_version call
\* never replaces it.
C5_VersionSetOnce == first_version # <<>> => _version = first_version[1]

\* C6: after the first set_protected_payload on a packet holding a protected
\* payload, a further set_protected_payload call leaves the bytes store()
\* writes unchanged.
C6_ProtectedPayloadSetOnce ==
  [][(/\ last_op' = "set_protected_payload"
      /\ result # <<>>
      /\ result[1]._protected_payload # <<>>)
       => QUICPacket_store(result'[1]) = QUICPacket_store(result[1])]_vars

\* C7: for a client packet with connection id C, packet number N and version
\* V, create_version_negotiation returns a VersionNegotiation packet with
\* connection id C, packet number N and version V, not retransmittable, whose
\* payload is 4 x (number of supported versions) bytes, its k-th 4-byte chunk
\* encoding the k-th supported version; the generator is not advanced.
C7_VersionNegotiation ==
  last_op = "create_version_negotiation" =>
    LET p == result[1]
        c == vn_client[1]
        payload == QUICPacket_payload(p)
    IN  /\ QUICPacket_type(p) = VERSION_NEGOTIATION
        /\ QUICPacket_connection_id(p) = QUICPacket_connection_id(c)
        /\ QUICPacket_packet_number(p) = QUICPacket_packet_number(c)
        /\ QUICPacket_version(p) = QUICPacket_version(c)
        /\ ~QUICPacket_is_retransmittable(p)
        /\ Len(payload) = 4 * Len(QUIC_SUPPORTED_VERSIONS)
        /\ QUICPacket_payload_size(p) = 4 * Len(QUIC_SUPPORTED_VERSIONS)
        /\ \A k \in 1 .. Len(QUIC_SUPPORTED_VERSIONS) :
             LimbsOf(SubSeq(payload, 4 * k - 3, 4 * k)) = QUIC_SUPPORTED_VERSIONS[k]
        /\ _current = prev_current
        /\ _current = ToU64(Len(drawn))

C7_Witness ==
  /\ ~aborted
  /\ last_op = "create_version_negotiation"
  /\ Len(drawn) > 0
  /\ IsParsed(vn_client[1]._header)
  /\ QUICPacket_packet_number(result[1]) = ToU64(65543)
  /\ QUICPacket_packet_number(result[1]) # _current

\* C11: for every packet the factory has produced, also a protected packet
\* after set_protected_payload with a ciphertext of any length, the number of
\* bytes store() writes equals the packet's size().
C11_StoreWritesSize ==
  (~aborted /\ result # <<>>) =>
    Len(QUICPacket_store(result[1])) = QUICPacket_size(result[1])

-----------------------------------------------------------------------------
(* Headers: build, store, load *)

HeaderInit ==
  /\ debug \in BOOLEAN
  /\ aborted = FALSE
  /\ FactoryInit
  /\ hdr = <<>> /\ wire = <<>> /\ loaded = <<>>
  /\ pkt = <<>> /\ block = <<>> /\ rx = <<>>

\* QUICPacketHeader::build, long form
build_long(type, connection_id, packet_number, version) ==
  /\ ~aborted
  /\ hdr' = <<QUICPacketLongHeader_built(type, connection_id, packet_number, version, <<>>, 0)>>
  /\ wire' = <<>>
  /\ loaded' = <<>>
  /\ UNCHANGED <<debug, aborted, factory_vars, packet_vars>>

\* QUICPacketHeader::build, short form without connection id
build_short(type, packet_number) ==
  /\ ~aborted
  /\ IF ShortCtorAsserts(type)
     THEN Abort
     ELSE /\ hdr' = <<QUICPacketShortHeader_built(type, packet_number, <<>>, 0)>>
          /\ wire' = <<>>
          /\ loaded' = <<>>
          /\ UNCHANGED <<debug, aborted, factory_vars, packet_vars>>

\* QUICPacketHeader::build, short form with connection id
build_short_cid(type, connection_id, packet_number) ==
  /\ ~aborted
  /\ IF ShortCtorAsserts(type)
     THEN Abort
     ELSE /\ hdr' = <<QUICPacketShortHeader_built_cid(type, connection_id, packet_number,
                                                      <<>>, 0)>>
          /\ wire' = <<>>
          /\ loaded' = <<>>
          /\ UNCHANGED <<debug, aborted, factory_vars, packet_vars>>

\* store() of the built header
header_store ==
  /\ ~aborted
  /\ hdr # <<>>
  /\ wire = <<>>
  /\ IF Header_store_asserts(hdr[1])
     THEN Abort
     ELSE /\ wire' = Header_store(hdr[1])
          /\ loaded' = <<>>
          /\ UNCHANGED <<debug, aborted, factory_vars, hdr, packet_vars>>

\* QUICPacketHeader::load of the stored bytes
header_load ==
  /\ ~aborted
  /\ wire # <<>>
  /\ loaded = <<>>
  /\ loaded' = <<QUICPacketHeader_load(wire)>>
  /\ UNCHANGED <<debug, aborted, factory_vars, hdr, wire, packet_vars>>

\* QUICPacketHeader::load of received long-header bytes with any type value
load_received(first_byte) ==
  /\ ~aborted
  /\ hdr' = <<>>
  /\ wire' = <<first_byte>> \o Zeros(LONGHEADER_LENGTH - 1)
  /\ loaded' = <<QUICPacketHeader_load(wire')>>
  /\ UNCHANGED <<debug, aborted, factory_vars, packet_vars>>

HeaderNext ==
  \/ \E t \in QUICPacketType, c \in ConnectionIds, n \in PacketNumbers, v \in Versions :
       build_long(t, c, n, v)
  \/ \E t \in QUICPacketType, n \in PacketNumbers : build_short(t, n)
  \/ \E t \in QUICPacketType, c \in ConnectionIds, n \in PacketNumbers :
       build_short_cid(t, c, n)
  \/ header_store
  \/ header_load
  \/ \E b \in 128 .. 255 : load_received(b)

HeaderSpec == HeaderInit /\ [][HeaderNext]_vars

OneRttTypes == {ONE_RTT_PROTECTED_KEY_PHASE_0, ONE_RTT_PROTECTED_KEY_PHASE_1}

\* C2: for every packet type, for both header forms (long; short with and
\* without connection id) and every packet number among the width boundaries,
\* loading the bytes store() wrote for a built header yields a header whose
\* type, connection id (when present), packet number, version (when present)
\* and key phase (when present) are the values the header was built with.
C2_RoundTrip ==
  (hdr # <<>> /\ loaded # <<>> /\ hdr[1]._packet_number \in BoundaryPacketNumbers) =>
    LET b == hdr[1]
        l == loaded[1]
    IN  /\ Header_type(l) = b._type
        /\ Header_has_connection_id(l) = b._has_connection_id
        /\ b._has_connection_id => Header_connection_id(l) = b._connection_id
        /\ Header_packet_number(l) = b._packet_number
        /\ Header_has_version(l) = b._has_version
        /\ b._has_version => Header_version(l) = b._version
        /\ Header_has_key_phase(l) = b._has_key_phase
        /\ b._has_key_phase => Header_key_phase(l) = b._key_phase

\* the packet-number width the magnitude classes call for
WidthOf(packet_number) ==
  IF LeqFF(packet_number) THEN 1 ELSE IF LeqFFFF(packet_number) THEN 2 ELSE 4

\* C8: for every built header, length() equals the number of bytes store()
\* writes: 17 for a long header, and 1 + (8 if a connection id is present) +
\* the packet-number width for a short header, the width being 1 byte for
\* packet numbers <= 0xFF, 2 bytes for <= 0xFFFF and 4 bytes otherwise.
C8_HeaderLength ==
  (hdr # <<>> /\ wire # <<>>) =>
    LET b == hdr[1]
    IN  /\ Header_length(b) = Len(wire)
        /\ b.form = "long" => Len(wire) = 17
        /\ b.form = "short" =>
             Len(wire) = 1 + (IF b._has_connection_id THEN 8 ELSE 0) + WidthOf(b._packet_number)

C8_Witness ==
  /\ ~aborted
  /\ hdr # <<>>
  /\ hdr[1].form = "short"
  /\ ~hdr[1]._has_connection_id
  /\ hdr[1]._packet_number = ToU64(65536)
  /\ Len(wire) = 5

\* C10: a short header built with a type other than OneRttProtectedPhase0/1
\* (stored key phase Uninitialized) never yields, through store and load, a
\* header that reports key phase Phase0 or Phase1 or type
\* OneRttProtectedPhase0/1.
C10_NoKeyPhaseCoercion ==
  (/\ hdr # <<>>
   /\ hdr[1].form = "short"
   /\ hdr[1]._type \notin OneRttTypes
   /\ loaded # <<>>) =>
    /\ Header_key_phase(loaded[1]) \notin {"PHASE_0", "PHASE_1"}
    /\ Header_type(loaded[1]) \notin OneRttTypes

-----------------------------------------------------------------------------
(* Non-protected packets: one packet is built and stored, and its bytes are *)
(* received intact or with one byte changed                                 *)

ChecksumInit ==
  /\ debug \in BOOLEAN
  /\ aborted = FALSE
  /\ FactoryInit
  /\ hdr = <<>> /\ wire = <<>> /\ loaded = <<>>
  /\ pkt = <<>> /\ block = <<>> /\ rx = <<>>

NonProtectedTypes == {t \in QUICPacketType : ~IsProtectedType(t)}

\* what a changed byte is XORed with: each single bit, and all bits
ByteChanges == {1, 2, 4, 8, 16, 32, 64, 128, 255}

\* QUICPacket built with a long header
packet_build_long(type, connection_id, packet_number, version, payload) ==
  /\ ~aborted
  /\ pkt = <<>>
  /\ pkt' = <<QUICPacket_long(type, connection_id, packet_number, version, payload,
                              Len(payload), TRUE)>>
  /\ wire' = <<>> /\ block' = <<>> /\ rx' = <<>>
  /\ UNCHANGED <<debug, aborted, factory_vars, hdr, loaded>>

\* QUICPacket built with a short header without connection id
packet_build_short(type, packet_number, payload) ==
  /\ ~aborted
  /\ pkt = <<>>
  /\ IF ShortCtorAsserts(type)
     THEN Abort
     ELSE /\ pkt' = <<QUICPacket_short(type, packet_number, payload, Len(payload), TRUE)>>
          /\ wire' = <<>> /\ block' = <<>> /\ rx' = <<>>
          /\ UNCHANGED <<debug, aborted, factory_vars, hdr, loaded>>

\* QUICPacket built with a short header with connection id
packet_build_short_cid(type, connection_id, packet_number, payload) ==
  /\ ~aborted
  /\ pkt = <<>>
  /\ IF ShortCtorAsserts(type)
     THEN Abort
     ELSE /\ pkt' = <<QUICPacket_short_cid(type, connection_id, packet_number, payload,
                                           Len(payload), TRUE)>>
          /\ wire' = <<>> /\ block' = <<>> /\ rx' = <<>>
          /\ UNCHANGED <<debug, aborted, factory_vars, hdr, loaded>>

\* QUICPacket::store
packet_store ==
  /\ ~aborted
  /\ pkt # <<>>
  /\ wire = <<>>
  /\ IF QUICPacket_store_asserts(pkt[1])
     THEN Abort
     ELSE /\ wire' = QUICPacket_store(pkt[1])
          /\ UNCHANGED <<debug, aborted, factory_vars, hdr, loaded, pkt, block, rx>>

\* the stored bytes arrive as they were sent
receive_intact ==
  /\ ~aborted
  /\ wire # <<>>
  /\ rx = <<>>
  /\ block' = wire
  /\ rx' = <<QUICPacketFactory_create(block')>>
  /\ UNCHANGED <<debug, aborted, factory_vars, hdr, loaded, pkt, wire>>

\* the stored bytes arrive with the byte at position i changed
receive_changed(i, change) ==
  /\ ~aborted
  /\ wire # <<>>
  /\ rx = <<>>
  /\ i \in 1 .. Len(wire)
  /\ block' = [wire EXCEPT ![i] = XorByte(wire[i], change)]
  /\ rx' = <<QUICPacketFactory_create(block')>>
  /\ UNCHANGED <<debug, aborted, factory_vars, hdr, loaded, pkt, wire>>

ChecksumNext ==
  \/ \E t \in NonProtectedTypes, n \in {ToU64(0), ToU64(256)}, d \in Payloads :
       packet_build_long(t, ToU64(1), n, <<65280, 5>>, d)
  \/ \E t \in {CLIENT_INITIAL, UNINITIALIZED}, n \in {ToU64(0), ToU64(256)}, d \in Payloads :
       packet_build_short(t, n, d)
  \/ \E t \in {CLIENT_INITIAL, UNINITIALIZED}, n \in {ToU64(0), ToU64(256)}, d \in Payloads :
       packet_build_short_cid(t, ToU64(1), n, d)
  \/ packet_store
  \/ receive_intact
  \/ \E i \in 1 .. LONGHEADER_LENGTH + MaxPayloadLen + FNV1A_HASH_LEN, x \in ByteChanges :
       receive_changed(i, x)

ChecksumSpec == ChecksumInit /\ [][ChecksumNext]_vars

\* the positions at which two buffers of one length differ
DiffPositions(a, b) == {i \in 1 .. Len(a) : a[i] # b[i]}

\* C4: for every non-protected packet, the bytes store() wrote load into a
\* packet whose checksum is valid, and the same bytes with any single byte
\* changed (header, payload or trailing checksum) load into a packet whose
\* checksum is not valid.
C4_Checksum ==
  (pkt # <<>> /\ rx # <<>> /\ ~IsProtectedType(QUICPacket_type(pkt[1]))) =>
    /\ block = wire => QUICPacket_has_valid_fnv1a_hash(rx[1])
    /\ Cardinality(DiffPositions(block, wire)) = 1 => ~QUICPacket_has_valid_fnv1a_hash(rx[1])

C4_Witness ==
  /\ ~aborted
  /\ pkt # <<>>
  /\ rx # <<>>
  /\ pkt[1]._header._payload_len = 2
  /\ DiffPositions(block, wire) = {LONGHEADER_LENGTH + 2}
  /\ ~QUICPacket_has_valid_fnv1a_hash(rx[1])

=============================================================================
